---- MODULE Spec2Model ----
(***************************************************************************)
(* Image/text composition models (maaf/models/composition_models.py).      *)
(*                                                                         *)
(* A tensor is a record [B, T, D, v] (3-D: batch x sequence x feature) or  *)
(* [B, D, v] (2-D), v holding the entries as nested sequences.  Float      *)
(* values are exact rationals: integers for inputs, pairs <<num, den>>     *)
(* for the results of a division (den = 0 is the float inf/nan).           *)
(*                                                                         *)
(* The state is the record of the last call: the method and its arguments  *)
(* (call), what it returned or raised (ret), the collaborators it invoked  *)
(* in order (log), and the fields of the MixedPositionalEncoder under      *)
(* construction/training (mpe).                                            *)
(***************************************************************************)
EXTENDS Integers, Sequences, FiniteSets, TLC

VARIABLES pc, call, ret, log, mpe

vars == <<pc, call, ret, log, mpe>>

\* ---------------------------------------------------------------- bounds
\* Largest number of elements (B * T * D) of an embedding given to compose.
MaxElems == 2
\* Largest number of elements (B * T * D) of an embedding given to pool_text.
MaxPoolElems == 4
\* Longest batch handed to extract_img_feature / extract_text_feature.
MaxBatchItems == 3
\* Most learned positions and longest sinusoidal table of a
\* MixedPositionalEncoder, longest sequence given to its forward, and most
\* optimizer steps taken on it.
MaxLearned == 2
MaxPeLen == 2
MaxSeq == 3
MaxSteps == 1

\* Embedding entries, mask entries, batch sizes and feature widths drawn.
Values == {-1, 2}
MaskVals == {0, 1, 2}
Batches == {1, 2}
Dims == {1, 2}

\* ------------------------------------------------------------ arithmetic
RECURSIVE SeqSum(_)
SeqSum(s) == IF s = <<>> THEN 0 ELSE Head(s) + SeqSum(Tail(s))

Sign(n) == IF n > 0 THEN 1 ELSE IF n < 0 THEN -1 ELSE 0

\* Float equality of two quotients (inf/nan compared by kind).
RatSame(a, b) ==
    IF a[2] = 0 \/ b[2] = 0
    THEN a[2] = 0 /\ b[2] = 0 /\ Sign(a[1]) = Sign(b[1])
    ELSE a[1] * b[2] = b[1] * a[2]

RatAdd(a, b) == <<a[1] * b[2] + b[1] * a[2], a[2] * b[2]>>

\* ---------------------------------------------------------------- tensors
Tensor3(B, T, D, v) == [kind |-> "tensor", B |-> B, T |-> T, D |-> D, v |-> v]
Mask2(B, T, v) == [kind |-> "mask", B |-> B, T |-> T, v |-> v]
Mat(B, D, v) == [kind |-> "value", B |-> B, D |-> D, v |-> v]
Error(why) == [kind |-> "error", why |-> why]
NoneVal == [kind |-> "none"]

Shapes(minT, maxElems) ==
    {s \in Batches \X (minT..maxElems) \X Dims : s[1] * s[2] * s[3] <= maxElems}

TensorsOf(B, T, D) ==
    {Tensor3(B, T, D, v) : v \in [1..B -> [1..T -> [1..D -> Values]]]}

MasksOf(B, T) == {Mask2(B, T, v) : v \in [1..B -> [1..T -> MaskVals]]}

\* torch broadcasting of one dimension: equal sizes, or one of them is 1.
Bc(a, b) == IF a = b THEN a ELSE IF a = 1 THEN b ELSE IF b = 1 THEN a ELSE -1

Idx(n, i) == IF n = 1 THEN 1 ELSE i

\* ------------------------------------------------------------- pool_text
\* xx.transpose(-2, -1): batch x feature x token.
Transpose(xx) ==
    [B |-> xx.B, D |-> xx.D, T |-> xx.T,
     v |-> [b \in 1..xx.B |-> [d \in 1..xx.D |-> [t \in 1..xx.T |-> xx.v[b][t][d]]]]]

\* xt.masked_fill(text_mask.unsqueeze(1) == 0, 0.), xt being B x D x T and the
\* mask B x 1 x T after unsqueeze; the two are broadcast against each other.
MaskedFill(xt, text_mask) ==
    LET Bo == Bc(xt.B, text_mask.B)
        To == Bc(xt.T, text_mask.T)
    IN  IF Bo = -1 \/ To = -1 THEN Error("masked_fill: sizes do not broadcast")
        ELSE [kind |-> "value", B |-> Bo, D |-> xt.D, T |-> To,
              v |-> [b \in 1..Bo |-> [d \in 1..xt.D |-> [t \in 1..To |->
                      IF text_mask.v[Idx(text_mask.B, b)][Idx(text_mask.T, t)] = 0
                      THEN 0
                      ELSE xt.v[Idx(xt.B, b)][d][Idx(xt.T, t)]]]]]

\* (text_mask != 0).sum(1): per mask row, the number of non-zero entries.
Denominators(text_mask) ==
    [b \in 1..text_mask.B |->
        Cardinality({t \in 1..text_mask.T : text_mask.v[b][t] # 0})]

\* torch.sum(xx, -1).view(-1, embed_dim) / denominators
SumOverDenominators(filled, text_mask) ==
    LET den == Denominators(text_mask)
    IN  Mat(filled.B, filled.D,
            [b \in 1..filled.B |-> [d \in 1..filled.D |->
                <<SeqSum(filled.v[b][d]), den[Idx(text_mask.B, b)]>>]])

\* pool_text without the masked_fill: the padded values stay in the sum.
MAAF_pool_text_unfilled(xx, text_mask) ==
    LET xt == Transpose(xx)
    IN  SumOverDenominators([kind |-> "value", B |-> xt.B, D |-> xt.D, T |-> xt.T,
                             v |-> xt.v], text_mask)

MAAF_pool_text(xx, text_mask) ==
    LET filled == MaskedFill(Transpose(xx), text_mask)
    IN  IF filled.kind = "error" THEN filled
        ELSE SumOverDenominators(filled, text_mask)

SimpleModelTextOnly_pool_text(xx, text_mask) ==
    LET filled == MaskedFill(Transpose(xx), text_mask)
    IN  IF filled.kind = "error" THEN filled
        ELSE SumOverDenominators(filled, text_mask)

\* ------------------------------------------------------ SimpleModelTextOnly
\* len(text_emb[0].shape): text_emb is an (embedding, mask) pair, or a plain
\* 2-D embedding whose element 0 is one row.
NDimOfFirst(text_emb) == IF text_emb.kind = "pair" THEN 3 ELSE 1

SimpleModelTextOnly_compose(img_emb, text_emb) ==
    IF NDimOfFirst(text_emb) > 2
    THEN SimpleModelTextOnly_pool_text(text_emb.emb, text_emb.mask)
    ELSE text_emb

\* ------------------------------------------------------------------ MAAF
\* torch.cat(tensors, 1) of 3-D tensors: fails on an empty list and when the
\* batch or feature sizes differ.
RECURSIVE CatRows(_, _)
CatRows(ts, b) == IF ts = <<>> THEN <<>> ELSE Head(ts).v[b] \o CatRows(Tail(ts), b)

Cat3(ts) ==
    IF ts = <<>> THEN Error("cat: empty list")
    ELSE IF \E i \in 1..Len(ts) : ts[i].B # ts[1].B \/ ts[i].D # ts[1].D
    THEN Error("cat: sizes differ")
    ELSE Tensor3(ts[1].B, SeqSum([i \in 1..Len(ts) |-> ts[i].T]), ts[1].D,
                 [b \in 1..ts[1].B |-> CatRows(ts, b)])

Cat2(ms) ==
    IF ms = <<>> THEN Error("cat: empty list")
    ELSE IF \E i \in 1..Len(ms) : ms[i].B # ms[1].B
    THEN Error("cat: sizes differ")
    ELSE Mask2(ms[1].B, SeqSum([i \in 1..Len(ms) |-> ms[i].T]),
               [b \in 1..ms[1].B |-> CatRows(ms, b)])

\* torch.ones(B, P, dtype=long)
Ones(B, P) == Mask2(B, P, [b \in 1..B |-> [t \in 1..P |-> 1]])

\* The encoder stack (maaf/models/transformer.py): every output position is its
\* input (residual path) plus a mix of the positions whose mask is non-zero; an
\* embedding and a mask of different batch or sequence sizes are refused.
Encoder(xx, mask) ==
    IF xx.B # mask.B \/ xx.T # mask.T THEN Error("encoder: mask shape")
    ELSE Tensor3(xx.B, xx.T, xx.D,
            [b \in 1..xx.B |-> [t \in 1..xx.T |-> [d \in 1..xx.D |->
                2 * xx.v[b][t][d]
                + SeqSum([j \in 1..xx.T |->
                            IF mask.v[b][j] # 0 THEN xx.v[b][j][d] ELSE 0])]]])

\* t[:, lo:hi] with Python's slice rules (0-based, hi exclusive, clamped).
SliceSeq(t, lo, hi) ==
    LET l == IF lo > t.T THEN t.T ELSE lo
        h == IF hi > t.T THEN t.T ELSE hi
    IN  Tensor3(t.B, IF h > l THEN h - l ELSE 0, t.D,
                [b \in 1..t.B |-> SubSeq(t.v[b], l + 1, h)])

\* Python's start index for t[:, start:]: a negative start counts from the end,
\* and -0 is 0.
SliceStart(start, len) ==
    IF start < 0 THEN (IF len + start < 0 THEN 0 ELSE len + start)
    ELSE IF start > len THEN len ELSE start

\* image_model.resolutionwise_pool (backbone): a [B, P, D] -> [B, D] reduction,
\* here the sum over the positions.
ResolutionwisePool(xx) ==
    Mat(xx.B, xx.D,
        [b \in 1..xx.B |-> [d \in 1..xx.D |->
            <<SeqSum([t \in 1..xx.T |-> xx.v[b][t][d]]), 1>>]])

\* torch.mean(xx, 1)
MeanDim1(xx) ==
    Mat(xx.B, xx.D,
        [b \in 1..xx.B |-> [d \in 1..xx.D |->
            <<SeqSum([t \in 1..xx.T |-> xx.v[b][t][d]]), xx.T>>]])

MAAF_pool_image(output, xx) ==
    IF output = "rwpool" THEN ResolutionwisePool(xx) ELSE MeanDim1(xx)

RECURSIVE RatSumAt(_, _, _)
RatSumAt(ms, b, d) ==
    IF ms = <<>> THEN <<0, 1>>
    ELSE RatAdd(Head(ms).v[b][d], RatSumAt(Tail(ms), b, d))

\* torch.sum(torch.stack(final_embs), 0) in place of the mean.
SumStack(ms) ==
    IF ms = <<>> THEN Error("stack: empty list")
    ELSE IF \E i \in 1..Len(ms) : ms[i].B # ms[1].B \/ ms[i].D # ms[1].D
    THEN Error("stack: sizes differ")
    ELSE Mat(ms[1].B, ms[1].D,
             [b \in 1..ms[1].B |-> [d \in 1..ms[1].D |-> RatSumAt(ms, b, d)]])

\* torch.mean(torch.stack(final_embs), 0)
MeanStack(ms) ==
    IF ms = <<>> THEN Error("stack: empty list")
    ELSE IF \E i \in 1..Len(ms) : ms[i].B # ms[1].B \/ ms[i].D # ms[1].D
    THEN Error("stack: sizes differ")
    ELSE Mat(ms[1].B, ms[1].D,
             [b \in 1..ms[1].B |-> [d \in 1..ms[1].D |->
                LET s == RatSumAt(ms, b, d) IN <<s[1], s[2] * Len(ms)>>]])

\* MAAF.compose with self.model = self.encoder.  The result is [ret, log]: the
\* value returned (or the error raised) and the calls made on the way.
MAAF_compose(output, img_emb, text_emb) ==
    LET hasImg == img_emb.kind # "none"
        hasText == text_emb.kind # "none"
        embeddings == (IF hasImg THEN <<img_emb>> ELSE <<>>)
                      \o (IF hasText THEN <<text_emb.emb>> ELSE <<>>)
        masks == (IF hasImg THEN <<Ones(img_emb.B, img_emb.T)>> ELSE <<>>)
                 \o (IF hasText THEN <<text_emb.mask>> ELSE <<>>)
        concat_features == Cat3(embeddings)
        concat_mask == Cat2(masks)
    IN  IF concat_features.kind = "error" THEN [ret |-> concat_features, log |-> <<>>]
        ELSE IF concat_mask.kind = "error" THEN [ret |-> concat_mask, log |-> <<>>]
        ELSE
        LET composed == Encoder(concat_features, concat_mask)
            log1 == <<[callee |-> "model", features |-> concat_features,
                       mask |-> concat_mask]>>
        IN  IF composed.kind = "error" THEN [ret |-> composed, log |-> log1]
            ELSE
            LET mod_im_feat == SliceSeq(composed, 0, img_emb.T)
                log2 == IF hasImg
                        THEN Append(log1, [callee |-> "pool_image", xx |-> mod_im_feat])
                        ELSE log1
                imgPooled == IF hasImg THEN <<MAAF_pool_image(output, mod_im_feat)>>
                             ELSE <<>>
                mod_text_feat ==
                    SliceSeq(composed, SliceStart(-text_emb.emb.T, composed.T),
                             composed.T)
                pooled_text_feat == MAAF_pool_text(mod_text_feat, text_emb.mask)
                log3 == IF hasText
                        THEN Append(log2, [callee |-> "pool_text", xx |-> mod_text_feat,
                                           mask |-> text_emb.mask])
                        ELSE log2
            IN  IF hasText /\ pooled_text_feat.kind = "error"
                THEN [ret |-> pooled_text_feat, log |-> log3]
                ELSE [ret |-> MeanStack(imgPooled \o
                                 (IF hasText THEN <<pooled_text_feat>> ELSE <<>>)),
                      log |-> log3]

\* ---------------------------------------------------------- ResidualMAAF
\* F applied to the value of x, x being evaluated once.
Bind(x, F(_)) == CHOOSE r \in {F(y) : y \in {x}} : TRUE

\* a + b of two [B, D] results of the same shape.
RatMatAdd(a, b) ==
    IF a.B # b.B \/ a.D # b.D THEN Error("add: sizes differ")
    ELSE Mat(a.B, a.D, [i \in 1..a.B |-> [d \in 1..a.D |-> RatAdd(a.v[i][d], b.v[i][d])]])

\* An integer [B, D] embedding as quotients.
AsRat(m) == Mat(m.B, m.D, [b \in 1..m.B |-> [d \in 1..m.D |-> <<m.v[b][d], 1>>]])

\* acc + m, acc being the Python number 0 or a [B, D] tensor; an error in
\* either operand is the result.
AddFeat(acc, m) ==
    IF acc.kind = "error" THEN acc
    ELSE IF m.kind = "error" THEN m
    ELSE IF acc.kind = "zero" THEN m
    ELSE RatMatAdd(acc, m)

\* The addition_feat of ResidualMAAF.compose: 0, plus the backbone's "fc" view
\* when there is an image, plus the masked mean of the raw text embedding when
\* there is a text.
ResidualMAAF_addition_feat(img_feat, text_emb) ==
    LET add0 == [kind |-> "zero"]
        add1 == IF img_feat.kind # "none" THEN AddFeat(add0, AsRat(img_feat.fc))
                ELSE add0
    IN  IF text_emb.kind # "none"
        THEN AddFeat(add1, MAAF_pool_text(text_emb.emb, text_emb.mask))
        ELSE add1

\* ResidualMAAF.compose: img_feat is None or the backbone's mapping with the
\* "projections" and "fc" views.
ResidualMAAF_compose(output, img_feat, text_emb) ==
    LET img_maaf_inputs == IF img_feat.kind = "none" THEN NoneVal
                           ELSE img_feat.projections
        Rest(maaf) ==
            IF maaf.ret.kind = "error" THEN maaf
            ELSE LET Sum(addition_feat) ==
                        [ret |-> AddFeat(addition_feat, maaf.ret),
                         log |-> IF text_emb.kind # "none"
                                 THEN Append(maaf.log,
                                             [callee |-> "pool_text",
                                              xx |-> text_emb.emb,
                                              mask |-> text_emb.mask])
                                 ELSE maaf.log]
                 IN  Bind(ResidualMAAF_addition_feat(img_feat, text_emb), Sum)
    IN  Bind(MAAF_compose(output, img_maaf_inputs, text_emb), Rest)

\* ------------------------------------------------- Addition, Concat, TIRG
\* Addition.compose with the final sum dropped: the image embedding is returned.
Addition_compose_no_sum(img_emb, text_emb) ==
    LET banner == <<[callee |-> "print", text |-> "======Addition======"]>>
    IN  IF img_emb.kind = "none"
        THEN IF text_emb.kind = "none"
             THEN [ret |-> Error("AssertionError: No images or text available"),
                   log |-> banner]
             ELSE [ret |-> text_emb, log |-> banner]
        ELSE [ret |-> img_emb, log |-> banner]

\* Addition.compose on [B, D] embeddings of one shape.
Addition_compose(img_emb, text_emb) ==
    LET banner == <<[callee |-> "print", text |-> "======Addition======"]>>
    IN  IF img_emb.kind = "none"
        THEN IF text_emb.kind = "none"
             THEN [ret |-> Error("AssertionError: No images or text available"),
                   log |-> banner]
             ELSE [ret |-> text_emb, log |-> banner]
        ELSE IF text_emb.kind = "none"
        THEN [ret |-> img_emb, log |-> banner]
        ELSE [ret |-> Mat(img_emb.B, img_emb.D,
                          [b \in 1..img_emb.B |-> [d \in 1..img_emb.D |->
                              img_emb.v[b][d] + text_emb.v[b][d]]]),
              log |-> banner]

\* Concat.__init__ hands ImgTextCompositionBase.__init__ two positional arguments
\* (texts, loss) and image_model by keyword as well: Python refuses the call.
Concat_init ==
    Error("TypeError: __init__() got multiple values for argument 'image_model'")

\* TIRG.compose without the early return for an absent text.
TIRG_compose_no_fallback(img_emb, text_emb) ==
    IF img_emb.kind = "none" \/ text_emb.kind = "none"
    THEN [ret |-> Error("TypeError: cat of None"),
          log |-> <<[callee |-> "gated_feature_composer"]>>]
    ELSE [ret |-> [kind |-> "term", op |-> "sigmoid(f1) * img_emb * a[0] + f2 * a[1]",
                   img_emb |-> img_emb, text_emb |-> text_emb],
          log |-> <<[callee |-> "gated_feature_composer"],
                    [callee |-> "res_info_composer"],
                    [callee |-> "a"]>>]

\* TIRG.compose.  The gate and residual networks are applied, not evaluated:
\* their outputs are kept as terms over the arguments.
TIRG_compose(img_emb, text_emb) ==
    IF text_emb.kind = "none" THEN [ret |-> img_emb, log |-> <<>>]
    ELSE IF img_emb.kind = "none"
    THEN [ret |-> Error("TypeError: cat of None"),
          log |-> <<[callee |-> "gated_feature_composer"]>>]
    ELSE [ret |-> [kind |-> "term", op |-> "sigmoid(f1) * img_emb * a[0] + f2 * a[1]",
                   img_emb |-> img_emb, text_emb |-> text_emb],
          log |-> <<[callee |-> "gated_feature_composer"],
                    [callee |-> "res_info_composer"],
                    [callee |-> "a"]>>]

\* ------------------------------------------------------ feature extraction
\* any(...) in place of all(...), over a non-empty batch.
AnyNone(batch) == batch = <<>> \/ \E i \in 1..Len(batch) : batch[i].kind = "none"

\* all([im is None for im in imgs])
AllNone(batch) == \A i \in 1..Len(batch) : batch[i].kind = "none"

\* The image backbone called on a batch: a mapping whose values are, in order,
\* the "projections" and the "fc" view.  A composer built without an image
\* model holds lambda xx: None instead.
ImageModel(present, imgs) ==
    IF present
    THEN [kind |-> "dict",
          items |-> <<[kind |-> "term", key |-> "projections", of |-> imgs],
                      [kind |-> "term", key |-> "fc", of |-> imgs]>>]
    ELSE NoneVal

\* The text backbone called on a batch, or lambda xx: None.
TextModel(present, texts) ==
    IF present THEN [kind |-> "term", op |-> "text_model", of |-> texts] ELSE NoneVal

Invoked(callee, batch) == <<[callee |-> callee, arg |-> batch]>>

ImgTextCompositionBase_extract_img_feature(present, imgs) ==
    IF AllNone(imgs) THEN [ret |-> NoneVal, log |-> <<>>]
    ELSE LET out == ImageModel(present, imgs)
         IN  [ret |-> IF out.kind = "none"
                      THEN Error("AttributeError: 'NoneType' object has no attribute 'values'")
                      ELSE out.items[Len(out.items)],
              log |-> Invoked("image_model", imgs)]

ImgTextCompositionBase_extract_text_feature(present, texts) ==
    IF AllNone(texts) THEN [ret |-> NoneVal, log |-> <<>>]
    ELSE [ret |-> TextModel(present, texts), log |-> Invoked("text_model", texts)]

MAAF_extract_img_feature(present, imgs) ==
    IF AllNone(imgs) THEN [ret |-> NoneVal, log |-> <<>>]
    ELSE LET out == ImageModel(present, imgs)
         IN  [ret |-> IF out.kind = "none"
                      THEN Error("TypeError: 'NoneType' object is not subscriptable")
                      ELSE (CHOOSE it \in {out.items[i] : i \in 1..Len(out.items)} :
                                it.key = "projections"),
              log |-> Invoked("image_model", imgs)]

ResidualMAAF_extract_img_feature(present, imgs) ==
    IF AllNone(imgs) THEN [ret |-> NoneVal, log |-> <<>>]
    ELSE [ret |-> ImageModel(present, imgs), log |-> Invoked("image_model", imgs)]

\* Guess.__call__: len(args[0]) rows of numbers drawn from [0, 1); the rows the
\* draw may give.
Guess(batch) ==
    {[kind |-> "value", B |-> Len(batch), D |-> 1, v |-> v] :
        v \in [1..Len(batch) -> [1..1 -> {0, 1}]]}

\* RandomComposition.extract_img_feature: the outcomes, one per draw.
RandomComposition_extract_img_feature(imgs) ==
    IF AllNone(imgs) THEN {[ret |-> NoneVal, log |-> <<>>]}
    ELSE {[ret |-> g, log |-> Invoked("image_model", imgs)] : g \in Guess(imgs)}

\* ------------------------------------------------ MixedPositionalEncoder
\* sin(k) and cos(k) in thousandths, k = 0, 1, 2, ...
SinMilli(k) == <<0, 841, 909, 141, -757, -959, -279>>[k + 1]
CosMilli(k) == <<1000, 540, -416, -990, -654, 284, 960>>[k + 1]

\* The table pe for embed_dim = 2, where div_term = [exp(0)] = [1]: row k is
\* (sin k, cos k).
SinusoidTable(max_len) ==
    [k \in 1..max_len |-> <<SinMilli(k - 1), CosMilli(k - 1)>>]

\* MixedPositionalEncoder.__init__: init is what kaiming_uniform_ drew for the
\* learned_positions rows.  pos_embed is the value torch.cat returns: a new
\* tensor holding the rows as they are at this moment.
MixedPositionalEncoder_init(learned_positions, max_len, init) ==
    LET pe == SinusoidTable(max_len)
    IN  [kind |-> "obj", learned_positions |-> learned_positions, max_len |-> max_len,
         learned_encodings |-> init, pe |-> pe,
         pos_embed |-> init \o pe,
         glorot |-> FALSE, steps |-> 0]

\* nn.Dropout in evaluation mode.
Dropout(xx) == xx

\* xx + self.pos_embed[:, :xx.size(1)]: the slice is clamped to the table, and
\* the sum broadcasts the two sequence sizes against each other.
AddPositions(xx, pos_embed) ==
    LET n == IF xx.T < Len(pos_embed) THEN xx.T ELSE Len(pos_embed)
        sliced == SubSeq(pos_embed, 1, n)
        To == Bc(xx.T, n)
    IN  IF To = -1 THEN Error("add: sequence sizes do not broadcast")
        ELSE Tensor3(xx.B, To, xx.D,
                [b \in 1..xx.B |-> [t \in 1..To |-> [d \in 1..xx.D |->
                    xx.v[b][Idx(xx.T, t)][d] + sliced[Idx(n, t)][d]]]])

MixedPositionalEncoder_forward(self, xx, mask) ==
    LET Encode(summed) ==
            IF summed.kind = "error" THEN [ret |-> summed, log |-> <<>>]
            ELSE [ret |-> Encoder(Dropout(summed), mask),
                  log |-> <<[callee |-> "encoder", features |-> Dropout(summed),
                             mask |-> mask]>>]
    IN  Bind(AddPositions(xx, self.pos_embed), Encode)

\* The loop closing MAAF.__init__: xavier_uniform_ overwrites, in place, every
\* parameter of self.model with more than one dimension; learned_encodings is
\* one (pe is a buffer, pos_embed a plain attribute).  drawn is what it drew.
MAAF_init_glorot(self, drawn) ==
    [self EXCEPT !.learned_encodings = drawn, !.glorot = TRUE]

\* An optimizer step: the parameter is written in place.
OptimizerStep(self, updated) ==
    [self EXCEPT !.learned_encodings = updated, !.steps = @ + 1]

\* --------------------------------------------------------------- actions
Outputs == {"rwpool", "mean"}

\* The (embedding, mask) pairs a text model hands over; the mask's shape is
\* the embedding's unless the caller got it wrong.
TextPairs ==
    {[kind |-> "pair", emb |-> e, mask |-> m] :
        e \in UNION {TensorsOf(s[1], s[2], s[3]) : s \in Shapes(0, MaxElems)},
        m \in UNION {MasksOf(s[1], s[2]) : s \in Shapes(0, MaxElems)}}

ImgEmbs == UNION {TensorsOf(s[1], s[2], s[3]) : s \in Shapes(1, MaxElems)}

\* [B, D] embeddings handed to the composers that work on pooled vectors.
VecEmbs(B, D) == {Mat(B, D, v) : v \in [1..B -> [1..D -> Values]]}

\* A direct call of MAAF.pool_text on an embedding and a mask of its shape.
MAAFPoolText ==
    /\ pc = "idle"
    /\ \E s \in Shapes(0, MaxPoolElems) : \E xx \in TensorsOf(s[1], s[2], s[3]) :
       \E m \in MasksOf(s[1], s[2]) :
          /\ call' = [op |-> "MAAF.pool_text", xx |-> xx, mask |-> m]
          /\ ret' = MAAF_pool_text(xx, m)
    /\ log' = <<>>
    /\ pc' = "done"
    /\ UNCHANGED mpe

\* SimpleModelTextOnly.compose on a padded (embedding, mask) pair.
SimpleTextOnlyComposePair ==
    /\ pc = "idle"
    /\ \E s \in Shapes(0, MaxPoolElems) : \E xx \in TensorsOf(s[1], s[2], s[3]) :
       \E m \in MasksOf(s[1], s[2]) :
          LET text_emb == [kind |-> "pair", emb |-> xx, mask |-> m]
          IN  /\ call' = [op |-> "SimpleModelTextOnly.compose", xx |-> xx, mask |-> m]
              /\ ret' = SimpleModelTextOnly_compose(NoneVal, text_emb)
    /\ log' = <<>>
    /\ pc' = "done"
    /\ UNCHANGED mpe

\* SimpleModelTextOnly.compose on a plain [B, D] text embedding.
SimpleTextOnlyComposePlain ==
    /\ pc = "idle"
    /\ \E B \in Batches : \E D \in Dims : \E text_emb \in VecEmbs(B, D) :
          /\ call' = [op |-> "SimpleModelTextOnly.compose(2-D)", text_emb |-> text_emb]
          /\ ret' = SimpleModelTextOnly_compose(NoneVal, text_emb)
    /\ log' = <<>>
    /\ pc' = "done"
    /\ UNCHANGED mpe

MAAFCompose ==
    /\ pc = "idle"
    /\ \E output \in Outputs :
       \E img_emb \in ImgEmbs \cup {NoneVal} :
       \E text_emb \in TextPairs \cup {NoneVal} :
          LET r == MAAF_compose(output, img_emb, text_emb)
          IN  /\ call' = [op |-> "MAAF.compose", output |-> output,
                          img_emb |-> img_emb, text_emb |-> text_emb]
              /\ ret' = r.ret
              /\ log' = r.log
    /\ pc' = "done"
    /\ UNCHANGED mpe

\* The backbone's mapping for ResidualMAAF: the projections and an fc view of
\* the same batch and width.
ImgFeats ==
    {[kind |-> "dict", projections |-> pr,
      fc |-> Mat(pr.B, pr.D, [b \in 1..pr.B |-> [d \in 1..pr.D |-> x]])] :
        pr \in ImgEmbs, x \in Values}

ResidualMAAFCompose ==
    /\ pc = "idle"
    /\ \E output \in Outputs :
       \E img_feat \in ImgFeats \cup {NoneVal} :
       \E text_emb \in TextPairs \cup {NoneVal} :
          LET r == ResidualMAAF_compose(output, img_feat, text_emb)
          IN  /\ call' = [op |-> "ResidualMAAF.compose", output |-> output,
                          img_emb |-> img_feat, text_emb |-> text_emb]
              /\ ret' = r.ret
              /\ log' = r.log
    /\ pc' = "done"
    /\ UNCHANGED mpe

AdditionCompose ==
    /\ pc = "idle"
    /\ \E B \in Batches : \E D \in Dims :
       \E img_emb \in VecEmbs(B, D) \cup {NoneVal} :
       \E text_emb \in VecEmbs(B, D) \cup {NoneVal} :
          LET r == Addition_compose(img_emb, text_emb)
          IN  /\ call' = [op |-> "Addition.compose",
                          img_emb |-> img_emb, text_emb |-> text_emb]
              /\ ret' = r.ret
              /\ log' = r.log
    /\ pc' = "done"
    /\ UNCHANGED mpe

ConcatInit ==
    /\ pc = "idle"
    /\ call' = [op |-> "Concat.__init__"]
    /\ ret' = Concat_init
    /\ log' = <<>>
    /\ pc' = "done"
    /\ UNCHANGED mpe

TIRGCompose ==
    /\ pc = "idle"
    /\ \E B \in Batches : \E D \in Dims :
       \E img_emb \in VecEmbs(B, D) \cup {NoneVal} :
       \E text_emb \in VecEmbs(B, D) \cup {NoneVal} :
          LET r == TIRG_compose(img_emb, text_emb)
          IN  /\ call' = [op |-> "TIRG.compose",
                          img_emb |-> img_emb, text_emb |-> text_emb]
              /\ ret' = r.ret
              /\ log' = r.log
    /\ pc' = "done"
    /\ UNCHANGED mpe

\* Batches of raw images or texts: each element an item or None.
Items == {NoneVal, [kind |-> "item"]}
RawBatches == UNION {[1..n -> Items] : n \in 0..MaxBatchItems}

ExtractOps == {"ImgTextCompositionBase.extract_img_feature",
               "ImgTextCompositionBase.extract_text_feature",
               "MAAF.extract_img_feature",
               "ResidualMAAF.extract_img_feature"}

ExtractResult(op, present, batch) ==
    CASE op = "ImgTextCompositionBase.extract_img_feature" ->
            ImgTextCompositionBase_extract_img_feature(present, batch)
      [] op = "ImgTextCompositionBase.extract_text_feature" ->
            ImgTextCompositionBase_extract_text_feature(present, batch)
      [] op = "MAAF.extract_img_feature" -> MAAF_extract_img_feature(present, batch)
      [] op = "ResidualMAAF.extract_img_feature" ->
            ResidualMAAF_extract_img_feature(present, batch)

\* extract_img_feature / extract_text_feature of a composer built with
\* (present) or without a backbone model.
ExtractFeature ==
    /\ pc = "idle"
    /\ \E op \in ExtractOps : \E present \in BOOLEAN : \E batch \in RawBatches :
          LET r == ExtractResult(op, present, batch)
          IN  /\ call' = [op |-> op, model_given |-> present, batch |-> batch]
              /\ ret' = r.ret
              /\ log' = r.log
    /\ pc' = "done"
    /\ UNCHANGED mpe

RandomCompositionExtractImg ==
    /\ pc = "idle"
    /\ \E batch \in RawBatches :
       \E r \in RandomComposition_extract_img_feature(batch) :
          /\ call' = [op |-> "RandomComposition.extract_img_feature",
                      model_given |-> TRUE, batch |-> batch]
          /\ ret' = r.ret
          /\ log' = r.log
    /\ pc' = "done"
    /\ UNCHANGED mpe

\* Values a learned row is initialised or updated to (thousandths).
InitVals == {-250, 250}
LearnedRows(n) == [1..n -> {<<x, x>> : x \in InitVals}]

MixedInit ==
    /\ pc = "idle"
    /\ \E learned_positions \in 0..MaxLearned : \E max_len \in 1..MaxPeLen :
       \E init \in LearnedRows(learned_positions) :
          mpe' = MixedPositionalEncoder_init(learned_positions, max_len, init)
    /\ pc' = "mixed"
    /\ call' = [op |-> "MixedPositionalEncoder.__init__"]
    /\ UNCHANGED <<ret, log>>

MAAFInitGlorot ==
    /\ pc = "mixed"
    /\ \E drawn \in LearnedRows(mpe.learned_positions) :
          mpe' = MAAF_init_glorot(mpe, drawn)
    /\ pc' = "built"
    /\ call' = [op |-> "MAAF.__init__"]
    /\ UNCHANGED <<ret, log>>

Optimize ==
    /\ pc = "built"
    /\ mpe.steps < MaxSteps
    /\ \E updated \in LearnedRows(mpe.learned_positions) :
          mpe' = OptimizerStep(mpe, updated)
    /\ call' = [op |-> "optimizer.step"]
    /\ UNCHANGED <<pc, ret, log>>

MixedForward ==
    /\ pc \in {"mixed", "built"}
    /\ \E B \in Batches : \E S \in 0..MaxSeq : \E x \in Values :
          LET xx == Tensor3(B, S, 2, [b \in 1..B |-> [t \in 1..S |-> <<x, x>>]])
              r == MixedPositionalEncoder_forward(mpe, xx, Ones(B, S))
          IN  /\ call' = [op |-> "MixedPositionalEncoder.forward", xx |-> xx]
              /\ ret' = r.ret
              /\ log' = r.log
    /\ pc' = "done"
    /\ UNCHANGED mpe

Init ==
    /\ pc = "idle"
    /\ call = [op |-> "none"]
    /\ ret = NoneVal
    /\ log = <<>>
    /\ mpe = [kind |-> "none"]

Next ==
    \/ MAAFPoolText
    \/ SimpleTextOnlyComposePair
    \/ SimpleTextOnlyComposePlain
    \/ MAAFCompose
    \/ ResidualMAAFCompose
    \/ AdditionCompose
    \/ ConcatInit
    \/ TIRGCompose
    \/ ExtractFeature
    \/ RandomCompositionExtractImg
    \/ MixedInit
    \/ MAAFInitGlorot
    \/ Optimize
    \/ MixedForward

Spec == Init /\ [][Next]_vars

\* ------------------------------------------------------------ properties
RECURSIVE SumOver(_, _)
SumOver(S, f) ==
    IF S = {} THEN 0
    ELSE LET x == CHOOSE y \in S : TRUE IN f[x] + SumOver(S \ {x}, f)

\* The positions of row b the mask keeps.
Kept(m, b) == {t \in 1..m.T : m.v[b][t] # 0}

RowsValid(m) == \A b \in 1..m.B : Kept(m, b) # {}

PerturbVals == {-7, 0, 5}

Perturbed(xx, b, t, d, val) == [xx EXCEPT !.v[b][t][d] = val]

PoolCall == pc = "done" /\ call.op \in {"MAAF.pool_text", "SimpleModelTextOnly.compose"}

PoolAgain(xx, m) ==
    IF call.op = "MAAF.pool_text" THEN MAAF_pool_text(xx, m)
    ELSE SimpleModelTextOnly_compose(NoneVal, [kind |-> "pair", emb |-> xx, mask |-> m])

\* C1: when every mask row keeps at least one position, pool_text (MAAF's and
\* SimpleModelTextOnly's) returns, per batch row and feature, the sum of the
\* values at the kept positions divided by their number; overwriting a value at
\* a mask == 0 position leaves the result as it was; and under an all-ones mask
\* the result is the arithmetic mean over the sequence axis.
C1_PoolTextMaskedMean ==
    (PoolCall /\ RowsValid(call.mask)) =>
        /\ ret.kind = "value" /\ ret.B = call.xx.B /\ ret.D = call.xx.D
        /\ \A b \in 1..call.xx.B : \A d \in 1..call.xx.D :
              /\ RatSame(ret.v[b][d],
                         <<SumOver(Kept(call.mask, b),
                                   [t \in 1..call.xx.T |-> call.xx.v[b][t][d]]),
                           Cardinality(Kept(call.mask, b))>>)
              /\ \A t \in 1..call.xx.T : \A val \in PerturbVals :
                    call.mask.v[b][t] = 0 =>
                        PoolAgain(Perturbed(call.xx, b, t, d, val), call.mask) = ret
              /\ (\A t \in 1..call.xx.T : call.mask.v[b][t] = 1) =>
                    RatSame(ret.v[b][d],
                            <<SumOver(1..call.xx.T,
                                      [t \in 1..call.xx.T |-> call.xx.v[b][t][d]]),
                              call.xx.T>>)

\* A pooled call on a sequence with a padded position that holds a non-zero
\* value, a kept position and a mask entry other than 0 and 1.
C1_Witness ==
    /\ PoolCall /\ RowsValid(call.mask) /\ ret.kind = "value"
    /\ call.xx.T >= 3
    /\ \E b \in 1..call.xx.B : \E t, u \in 1..call.xx.T :
          /\ call.mask.v[b][t] = 0 /\ call.xx.v[b][t][1] # 0
          /\ call.mask.v[b][u] = 2

ComposeCall == pc = "done" /\ call.op = "MAAF.compose"
HasImg == call.img_emb.kind # "none"
HasText == call.text_emb.kind # "none"

\* Image rows followed by text rows, written position by position.
Joined(img, txt) ==
    Tensor3(img.B, img.T + txt.T, img.D,
            [b \in 1..img.B |-> [t \in 1..(img.T + txt.T) |->
                IF t <= img.T THEN img.v[b][t] ELSE txt.v[b][t - img.T]]])

JoinedMask(P, m) ==
    Mask2(m.B, P + m.T,
          [b \in 1..m.B |-> [t \in 1..(P + m.T) |->
                IF t <= P THEN 1 ELSE m.v[b][t - P]]])

\* Positions first+1 .. first+len of t.
Segment(t, first, len) ==
    Tensor3(t.B, len, t.D,
            [b \in 1..t.B |-> [i \in 1..len |-> t.v[b][first + i]]])

HalfSum(a, b) == <<a[1] * b[2] + b[1] * a[2], 2 * a[2] * b[2]>>

SameMat(m, f(_, _)) ==
    \A b \in 1..m.B : \A d \in 1..m.D : RatSame(m.v[b][d], f(b, d))

\* C2: what MAAF.compose returns is the elementwise mean of the pooled segments
\* of the modalities present: (pool_image(image segment) + pool_text(text
\* segment, text_mask)) / 2 with both; pool_image of the encoder output of the
\* image sequence under an all-ones mask with the image alone, pool_text never
\* being called; pool_text of the encoder output of the text sequence with the
\* text alone.
C2_ComposeMeanOfPooled ==
    (ComposeCall /\ ret.kind = "value") =>
        LET img == call.img_emb
            txt == call.text_emb
        IN  /\ (HasImg /\ HasText) =>
                LET out == Encoder(Joined(img, txt.emb), JoinedMask(img.T, txt.mask))
                    pi == MAAF_pool_image(call.output, Segment(out, 0, img.T))
                    pt == MAAF_pool_text(Segment(out, img.T, txt.emb.T), txt.mask)
                    half(b, d) == HalfSum(pi.v[b][d], pt.v[b][d])
                IN  ret.B = img.B /\ ret.D = img.D /\ SameMat(ret, half)
            /\ (HasImg /\ ~HasText) =>
                LET pi == MAAF_pool_image(call.output, Encoder(img, Ones(img.B, img.T)))
                    same(b, d) == pi.v[b][d]
                IN  /\ ret.B = img.B /\ ret.D = img.D /\ SameMat(ret, same)
                    /\ \A i \in 1..Len(log) : log[i].callee # "pool_text"
                    /\ log[1].features = img
            /\ (~HasImg /\ HasText) =>
                LET pt == MAAF_pool_text(Encoder(txt.emb, txt.mask), txt.mask)
                    same(b, d) == pt.v[b][d]
                IN  /\ ret.B = txt.emb.B /\ ret.D = txt.emb.D /\ SameMat(ret, same)
                    /\ \A i \in 1..Len(log) : log[i].callee # "pool_image"

\* Both modalities present, two text tokens of which one is padding, and a
\* finite composed vector.
C2_Witness ==
    /\ ComposeCall /\ ret.kind = "value" /\ HasImg /\ HasText
    /\ call.text_emb.emb.T = 2
    /\ call.text_emb.mask.v[1][1] # 0 /\ call.text_emb.mask.v[1][2] = 0
    /\ ret.v[1][1][2] # 0 /\ ret.v[1][1][1] # 0

\* C3: in MAAF.compose the encoder input is the image embeddings followed by
\* the text embeddings, the masks joined in the same order; the image segment
\* is positions 0..P-1 of the encoder output and the text segment its last T
\* positions, for every P and T (T = 0 included) and whatever the mask holds.
C3_SegmentsByLength ==
    (ComposeCall /\ log # <<>>) =>
        LET img == call.img_emb
            txt == call.text_emb
            P == IF HasImg THEN img.T ELSE 0
            T == IF HasText THEN txt.emb.T ELSE 0
            out == Encoder(log[1].features, log[1].mask)
        IN  /\ (HasImg /\ HasText) => log[1].features = Joined(img, txt.emb)
            /\ (HasImg /\ HasText) => log[1].mask = JoinedMask(P, txt.mask)
            /\ \A i \in 2..Len(log) :
                  /\ log[i].callee = "pool_image" => log[i].xx = Segment(out, 0, P)
                  /\ log[i].callee = "pool_text" => log[i].xx = Segment(out, P, T)

\* C6: MAAF.compose given a text embedding whose sequence length is not its
\* mask's fails without calling the encoder, and the encoder is never called
\* with an embedding and a mask whose batch or sequence sizes differ.
C6_MismatchFailsBeforeEncoder ==
    ComposeCall =>
        /\ (HasText /\ call.text_emb.emb.T # call.text_emb.mask.T) =>
              (ret.kind = "error" /\ log = <<>>)
        /\ \A i \in 1..Len(log) :
              log[i].callee = "model" =>
                  (log[i].features.B = log[i].mask.B /\ log[i].features.T = log[i].mask.T)

VecCall(op) == pc = "done" /\ call.op = op

\* C4: Addition.compose(a, None) is a, compose(None, b) is b, and compose(a, b)
\* is a + b, entry by entry.
C4_AdditionCompose ==
    VecCall("Addition.compose") =>
        LET a == call.img_emb
            b == call.text_emb
        IN  /\ (a.kind # "none" /\ b.kind = "none") => ret = a
            /\ (a.kind = "none" /\ b.kind # "none") => ret = b
            /\ (a.kind # "none" /\ b.kind # "none") =>
                  /\ ret.kind = "value" /\ ret.B = a.B /\ ret.D = a.D
                  /\ \A i \in 1..a.B : \A d \in 1..a.D :
                        ret.v[i][d] - a.v[i][d] = b.v[i][d]

\* Two embeddings of two rows, the sum of which is neither of them.
C4_Witness ==
    /\ VecCall("Addition.compose")
    /\ call.img_emb.kind # "none" /\ call.text_emb.kind # "none"
    /\ call.img_emb.B = 2
    /\ ret.kind = "value" /\ ret.v[2][1] = 1

FusingComposers == {"Addition.compose", "Concat.compose", "TIRG.compose",
                    "MAAF.compose", "ResidualMAAF.compose"}

\* C5: compose(None, None) of Addition, Concat, TIRG, MAAF and ResidualMAAF
\* raises; none of them returns a value, None included.
C5_BothAbsentFails ==
    (pc = "done" /\ call.op \in FusingComposers
        /\ call.img_emb.kind = "none" /\ call.text_emb.kind = "none")
    => ret.kind = "error"

ExtractCall ==
    pc = "done" /\ call.op \in ExtractOps \cup {"RandomComposition.extract_img_feature"}

\* C7: extract_img_feature and extract_text_feature (the base class's, and the
\* overrides of MAAF, ResidualMAAF and RandomComposition) return None without
\* calling the backbone when every element of the batch is None, and call the
\* backbone once, on the whole batch, when some element is not None.
C7_ExtractSkipsAllNone ==
    ExtractCall =>
        IF \A i \in 1..Len(call.batch) : call.batch[i] = NoneVal
        THEN ret.kind = "none" /\ log = <<>>
        ELSE /\ Len(log) = 1
             /\ log[1].callee \in {"image_model", "text_model"}
             /\ log[1].arg = call.batch

\* A batch holding both a None and an item, for which the backbone ran.
C7_Witness ==
    /\ ExtractCall /\ call.op = "MAAF.extract_img_feature"
    /\ Len(call.batch) = 3
    /\ call.batch[1] = NoneVal /\ call.batch[2] # NoneVal
    /\ Len(log) = 1 /\ ret.kind = "term" /\ ret.key = "projections"

\* C8: TIRG.compose without a text embedding returns the image embedding it was
\* given, and evaluates neither the gate network, nor the residual network, nor
\* the gain vector a.
C8_TIRGTextAbsent ==
    (VecCall("TIRG.compose") /\ call.text_emb.kind = "none") =>
        (ret = call.img_emb /\ log = <<>>)

C8_Witness ==
    /\ VecCall("TIRG.compose") /\ call.text_emb.kind = "none"
    /\ call.img_emb.kind = "value" /\ call.img_emb.B = 2 /\ call.img_emb.D = 2
    /\ ret.kind = "value"

\* C9: MixedPositionalEncoder.forward raises for every input longer than the
\* concatenated table (learned_positions + max_len rows); it never goes on to
\* call the encoder after truncating, broadcasting or extending the table.
C9_ForwardTooLongFails ==
    (pc = "done" /\ call.op = "MixedPositionalEncoder.forward"
        /\ call.xx.T > mpe.learned_positions + mpe.max_len)
    => (ret.kind = "error" /\ log = <<>>)

\* C10: once MAAF.__init__ has run with position_encodings == "mixed", and after
\* any in-place updates of learned_encodings, the first learned_positions rows
\* of pos_embed are the current learned_encodings and row learned_positions + k
\* is pe[k].
C10_TableFollowsParameter ==
    (mpe.kind = "obj" /\ mpe.glorot) =>
        /\ Len(mpe.pos_embed) = mpe.learned_positions + mpe.max_len
        /\ \A i \in 1..mpe.learned_positions :
              mpe.pos_embed[i] = mpe.learned_encodings[i]
        /\ \A k \in 1..mpe.max_len :
              mpe.pos_embed[mpe.learned_positions + k] = mpe.pe[k]
====
